---- MODULE Spec2Model ----
(***************************************************************************)
(* A model of the red-cod interpreter (a ><> / "fish" interpreter):        *)
(* codebox.rs (the 2D program memory), stack.rs (the stack of substacks    *)
(* with a register each) and interpreter.rs (pointer, direction, parse     *)
(* mode, dispatch, wrapping movement).                                     *)
(*                                                                         *)
(* Values.  The program's values are f64.  The model keeps the dyadic      *)
(* rationals n/d (d a power of two) with |n| <= MaxMag and d <= MaxDen,    *)
(* on which f64 arithmetic is exact, and negative zero.  A value is the    *)
(* pair <<n, d>> in lowest terms with d >= 1; negative zero is <<0, -1>>.  *)
(* A step whose result leaves that set (a quotient that is not dyadic, a   *)
(* division by zero, a magnitude beyond MaxMag) is beyond the bounds of    *)
(* the model, and the model does not take it.                              *)
(*                                                                         *)
(* Characters are Unicode scalar values, written as natural numbers; the   *)
(* printable ASCII ones are named through Ord["c"].                        *)
(***************************************************************************)
EXTENDS Integers, Sequences, FiniteSets, TLC

\* ---------------------------------------------------------------- bounds
\* largest numerator of a value of the model
MaxMag == 300
\* largest denominator of a value of the model
MaxDen == 4
\* most values on the substacks together
MaxStack == 16
\* most characters written to the output
MaxOutput == 420
\* most substacks above the base
MaxSubstacks == 3
\* most calls of run_to_end by the host
MaxCalls == 2
\* most 'i' at the head of a probe program
MaxLoad == 2
\* the steps before the last one that the history keeps
MaxTrail == 2

\* ------------------------------------------------------------ characters
AsciiTable ==
    << " ", "!", "\"", "#", "$", "%", "&", "'", "(", ")", "*", "+", ",", "-", ".", "/",
       "0", "1", "2", "3", "4", "5", "6", "7", "8", "9", ":", ";", "<", "=", ">", "?",
       "@", "A", "B", "C", "D", "E", "F", "G", "H", "I", "J", "K", "L", "M", "N", "O",
       "P", "Q", "R", "S", "T", "U", "V", "W", "X", "Y", "Z", "[", "\\", "]", "^", "_",
       "grave", "a", "b", "c", "d", "e", "f", "g", "h", "i", "j", "k", "l", "m", "n", "o",
       "p", "q", "r", "s", "t", "u", "v", "w", "x", "y", "z", "{", "|", "}", "~" >>

\* the code point of a printable ASCII character (chr as u32); the table runs
\* from U+0020 to U+007E, and "grave" stands for U+0060, which no TLA+ string holds
Ord ==
    [s \in {AsciiTable[i] : i \in 1..Len(AsciiTable)} |->
        31 + (CHOOSE i \in 1..Len(AsciiTable) : AsciiTable[i] = s)]

\* a text given character by character, as code points
Str(chars) == [i \in 1..Len(chars) |-> Ord[chars[i]]]

LF == 10
CR == 13

\* std::char::from_u32: the Unicode scalar values
IsScalar(c) == 0 <= c /\ c <= 1114111 /\ ~(55296 <= c /\ c <= 57343)

\* ---------------------------------------------------------------- values
Abs(n) == IF n < 0 THEN -n ELSE n

RECURSIVE Gcd(_, _)
Gcd(a, b) == IF b = 0 THEN a ELSE Gcd(b, a % b)

F(n) == <<n, 1>>
NegZero == <<0, -1>>

IsZero(v) == v[1] = 0
IsNeg(v) == v[1] < 0 \/ (v[1] = 0 /\ v[2] < 0)
Den(v) == Abs(v[2])

\* n/d (d > 0) in lowest terms; a zero takes the sign given
Mk(n, d, negzero) ==
    IF n = 0 THEN (IF negzero THEN NegZero ELSE F(0))
    ELSE LET g == Gcd(Abs(n), d) IN <<n \div g, d \div g>>

FNeg(v) == IF IsZero(v) THEN <<0, -v[2]>> ELSE <<-v[1], v[2]>>
FAdd(y, x) == Mk(y[1] * Den(x) + x[1] * Den(y), Den(y) * Den(x), IsNeg(y) /\ IsNeg(x))
FSub(y, x) == FAdd(y, FNeg(x))
FMul(y, x) == Mk(y[1] * x[1], Den(y) * Den(x), IsNeg(y) # IsNeg(x))
\* a result that is no finite number (x / 0, x % 0): not a value of the model
Beyond == <<1, 0>>
FDiv(y, x) ==
    IF IsZero(x) THEN Beyond
    ELSE Mk((IF x[1] < 0 THEN -1 ELSE 1) * y[1] * Den(x), Den(y) * Abs(x[1]),
            IsNeg(y) # IsNeg(x))
FLess(y, x) == y[1] * Den(x) < x[1] * Den(y)
\* trunc: toward zero, the sign kept
FTrunc(v) ==
    LET q == Abs(v[1]) \div Den(v) IN
    Mk(IF v[1] < 0 THEN -q ELSE q, 1, IsNeg(v))
\* the % of f64 (fmod): y - x * trunc(y / x), with the sign of y
FRem(y, x) ==
    IF IsZero(x) THEN Beyond
    ELSE LET r == FSub(y, FMul(x, FTrunc(FDiv(y, x)))) IN Mk(r[1], Den(r), IsNeg(y))
IsIntegral(v) == Den(v) = 1
\* `v as usize`: negative values saturate to 0, fractions truncate
AsUsize(v) == IF v[1] < 0 THEN 0 ELSE v[1] \div Den(v)

IsPow2(d) == d \in {1, 2, 4, 8, 16, 32, 64, 128, 256, 512, 1024}
\* the values the model keeps
InModel(v) == Abs(v[1]) <= MaxMag /\ Den(v) <= MaxDen /\ IsPow2(Den(v))

\* ------------------------------------------------------- stack.rs: Stack
\* A Stack is [entries, register]: entries bottom to top (the back of the
\* VecDeque is the end of the sequence), register <<>> (None) or <<v>> (Some(v)).
\* An operation that can fail yields [st, err], and [st, err, val] when it
\* returns a value; what it did before failing stays done.
Front(e) == SubSeq(e, 1, Len(e) - 1)
Last(e) == e[Len(e)]

StackNew == [entries |-> <<>>, register |-> <<>>]

pop(s) ==
    IF s.entries = <<>>
    THEN [st |-> s, err |-> "Underflow", val |-> F(0)]
    ELSE [st |-> [s EXCEPT !.entries = Front(s.entries)], err |-> "None",
          val |-> Last(s.entries)]

push(s, val) == [s EXCEPT !.entries = Append(s.entries, val)]

\* clear that leaves the register as it is
clear_Values(s) == [entries |-> <<>>, register |-> s.register]

clear(s) == [entries |-> <<>>, register |-> <<>>]

\* split that calls split_off(n): the new Stack takes all but the lowest n values
split_AtN(s) ==
    LET p == pop(s) IN
    IF p.err # "None" THEN [st |-> p.st, err |-> p.err, new |-> StackNew]
    ELSE LET n == AsUsize(p.val)
             self_len == Len(p.st.entries)
         IN IF self_len < n
            THEN [st |-> p.st, err |-> "Underflow", new |-> StackNew]
            ELSE [st |-> [p.st EXCEPT !.entries = SubSeq(p.st.entries, 1, n)],
                  err |-> "None",
                  new |-> [entries |-> SubSeq(p.st.entries, n + 1, self_len),
                           register |-> <<>>]]

\* the new Stack is `new` (FromIterator: register None)
split(s) ==
    LET p == pop(s) IN
    IF p.err # "None" THEN [st |-> p.st, err |-> p.err, new |-> StackNew]
    ELSE LET n == AsUsize(p.val)
             self_len == Len(p.st.entries)
         IN IF self_len < n
            THEN [st |-> p.st, err |-> "Underflow", new |-> StackNew]
            ELSE [st |-> [p.st EXCEPT !.entries = SubSeq(p.st.entries, 1, self_len - n)],
                  err |-> "None",
                  new |-> [entries |-> SubSeq(p.st.entries, self_len - n + 1, self_len),
                           register |-> <<>>]]

\* let x = self.pop()?; let y = self.pop()?: yields [st, err, x, y]
Pop2(s) ==
    LET px == pop(s)
        py == pop(px.st)
    IN IF px.err # "None" THEN [st |-> px.st, err |-> px.err, x |-> F(0), y |-> F(0)]
       ELSE [st |-> py.st, err |-> py.err, x |-> px.val, y |-> py.val]

\* self.push(val); Ok(()), once both operands were popped: p is Pop2(s)
Binary(p, val) ==
    IF p.err # "None" THEN [st |-> p.st, err |-> p.err]
    ELSE [st |-> push(p.st, val), err |-> "None"]

\* (y - x).abs() < f64::EPSILON.  EPSILON is 2^-52; a difference of two values
\* of the model is 0 or at least 1 / MaxDen^2 in magnitude.
EqualsVal(y, x) == IF IsZero(FSub(y, x)) THEN F(1) ELSE F(0)
GreaterVal(y, x) == IF FLess(x, y) THEN F(1) ELSE F(0)
LessVal(y, x) == IF FLess(y, x) THEN F(1) ELSE F(0)

add(s) == LET p == Pop2(s) IN Binary(p, FAdd(p.y, p.x))
\* subtract with its operands the other way round: x - y
subtract_Swapped(s) == LET p == Pop2(s) IN Binary(p, FSub(p.x, p.y))

subtract(s) == LET p == Pop2(s) IN Binary(p, FSub(p.y, p.x))
multiply(s) == LET p == Pop2(s) IN Binary(p, FMul(p.y, p.x))
divide(s) == LET p == Pop2(s) IN Binary(p, FDiv(p.y, p.x))
\* modulo with its operands the other way round: x % y
modulo_Swapped(s) == LET p == Pop2(s) IN Binary(p, FRem(p.x, p.y))

modulo(s) == LET p == Pop2(s) IN Binary(p, FRem(p.y, p.x))
equals(s) == LET p == Pop2(s) IN Binary(p, EqualsVal(p.y, p.x))
greater_than(s) == LET p == Pop2(s) IN Binary(p, GreaterVal(p.y, p.x))
less_than(s) == LET p == Pop2(s) IN Binary(p, LessVal(p.y, p.x))

dup(s) ==
    IF s.entries = <<>> THEN [st |-> s, err |-> "Underflow"]
    ELSE [st |-> push(s, Last(s.entries)), err |-> "None"]

\* VecDeque::swap(i, j), indices from 0
SwapEntries(e, i, j) == [e EXCEPT ![i + 1] = e[j + 1], ![j + 1] = e[i + 1]]

\* for i in from..n { entries.swap(len - i, len - i - 1) }
RECURSIVE SwapLoop(_, _, _, _)
SwapLoop(e, len, i, n) ==
    IF i >= n THEN e
    ELSE SwapLoop(SwapEntries(e, len - i, len - i - 1), len, i + 1, n)

\* swap that rotates the other way: the n-th from the top becomes the top
swap_Up(s, n) ==
    LET len == Len(s.entries)
        e == s.entries
    IN IF n > len THEN [st |-> s, err |-> "Underflow"]
       ELSE [st |-> [s EXCEPT !.entries = SubSeq(e, 1, len - n) \o SubSeq(e, len - n + 2, len)
                                          \o <<e[len - n + 1]>>],
             err |-> "None"]

\* swap that does the turns of its loop that the values allow before it fails
swap_Partial(s, n) ==
    LET len == Len(s.entries) IN
    IF n > len
    THEN [st |-> [s EXCEPT !.entries = SwapLoop(s.entries, len, 1, len)], err |-> "Underflow"]
    ELSE [st |-> [s EXCEPT !.entries = SwapLoop(s.entries, len, 1, n)], err |-> "None"]

\* swap whose loop ends after its first turn
swap_Once(s, n) ==
    LET len == Len(s.entries) IN
    IF n > len THEN [st |-> s, err |-> "Underflow"]
    ELSE [st |-> [s EXCEPT !.entries = SwapLoop(s.entries, len, 1, 2)], err |-> "None"]

swap(s, n) ==
    LET len == Len(s.entries) IN
    IF n > len THEN [st |-> s, err |-> "Underflow"]
    ELSE [st |-> [s EXCEPT !.entries = SwapLoop(s.entries, len, 1, n)], err |-> "None"]

\* shift_right that takes from the front and puts at the back
shift_right_Front(s) ==
    IF s.entries = <<>> THEN s
    ELSE [s EXCEPT !.entries = Append(Tail(s.entries), Head(s.entries))]

\* pop_back, then push_front
shift_right(s) ==
    IF s.entries = <<>> THEN s
    ELSE [s EXCEPT !.entries = <<Last(s.entries)>> \o Front(s.entries)]

\* shift_left that takes from the back and puts at the front
shift_left_Back(s) ==
    IF s.entries = <<>> THEN s
    ELSE [s EXCEPT !.entries = <<Last(s.entries)>> \o Front(s.entries)]

\* pop_front, then push_back
shift_left(s) ==
    IF s.entries = <<>> THEN s
    ELSE [s EXCEPT !.entries = Append(Tail(s.entries), Head(s.entries))]

\* for val in vals { entries.push_front(val) }
RECURSIVE PushFrontAll(_, _)
PushFrontAll(vals, e) ==
    IF vals = <<>> THEN e ELSE PushFrontAll(Tail(vals), <<Head(vals)>> \o e)

\* reverse that unsets the register
reverse_Unset(s) == [entries |-> PushFrontAll(s.entries, <<>>), register |-> <<>>]

\* reverse that leaves the entries as they are
reverse_Kept(s) == s

reverse(s) == [s EXCEPT !.entries = PushFrontAll(s.entries, <<>>)]

push_len(s) == push(s, F(Len(s.entries)))

swap_register(s) ==
    IF s.register # <<>>
    THEN [st |-> push(s, s.register[1]), err |-> "None"]
    ELSE LET p == pop(s) IN
         IF p.err # "None" THEN [st |-> p.st, err |-> p.err]
         ELSE [st |-> [p.st EXCEPT !.register = <<p.val>>], err |-> "None"]

\* impl Extend<f64> for Stack
extend(s, vals) == [s EXCEPT !.entries = s.entries \o vals]

\* ------------------------------------------------ stack.rs: ProgramStack
\* [base, substacks]: the current Stack is the last of substacks, or base.
ProgramStackNew == [base |-> StackNew, substacks |-> <<>>]

curr(ps) == IF ps.substacks # <<>> THEN Last(ps.substacks) ELSE ps.base

\* assignment through the &mut Stack that curr() returns
SetCurr(ps, s) ==
    IF ps.substacks # <<>>
    THEN [ps EXCEPT !.substacks[Len(ps.substacks)] = s]
    ELSE [ps EXCEPT !.base = s]

\* the Stack the interpreter's instructions work on
top(ps) == curr(ps)

split_stack(ps) ==
    LET r == split(curr(ps)) IN
    IF r.err # "None" THEN [ps |-> SetCurr(ps, r.st), err |-> r.err]
    ELSE [ps |-> [SetCurr(ps, r.st) EXCEPT !.substacks = Append(@, r.new)],
          err |-> "None"]

\* drop_stack that puts the values of the dropped substack under those of the
\* substack below
drop_stack_Under(ps) ==
    IF ps.substacks # <<>>
    THEN LET t == Last(ps.substacks)
             rest == [ps EXCEPT !.substacks = Front(ps.substacks)]
         IN SetCurr(rest, [curr(rest) EXCEPT !.entries = t.entries \o @])
    ELSE SetCurr(ps, clear(curr(ps)))

drop_stack(ps) ==
    IF ps.substacks # <<>>
    THEN LET t == Last(ps.substacks)
             rest == [ps EXCEPT !.substacks = Front(ps.substacks)]
         IN SetCurr(rest, extend(curr(rest), t.entries))
    ELSE SetCurr(ps, clear(curr(ps)))

\* ------------------------------------------------------------ codebox.rs
\* A cell (Instruction) is Noop or Op(c); a position (Pos) is <<x, y>>.
Noop == <<>>
Op(c) == <<c>>

\* str::lines: the text between line feeds, a carriage return before the line
\* feed dropped; a line feed that ends the text starts no further line
LineBreaks(text) == {i \in 1..Len(text) : text[i] = LF}

\* the position of the k-th line feed; 0 for k = 0, past the end when there is none
BreakAt(text, k) ==
    IF k = 0 THEN 0
    ELSE IF k > Cardinality(LineBreaks(text)) THEN Len(text) + 1
    ELSE CHOOSE i \in LineBreaks(text) :
            Cardinality({j \in LineBreaks(text) : j <= i}) = k

StripCR(line) == IF line # <<>> /\ Last(line) = CR THEN Front(line) ELSE line

Lines(text) ==
    LET n == Cardinality(LineBreaks(text))
             + (IF text = <<>> \/ Last(text) = LF THEN 0 ELSE 1)
    IN [k \in 1..n |->
          StripCR(SubSeq(text, BreakAt(text, k - 1) + 1, BreakAt(text, k) - 1))]

\* String::len: the length in bytes of the UTF-8 encoding
ByteLen(line) ==
    Len(line) + Cardinality({i \in 1..Len(line) : line[i] >= 128})
              + Cardinality({i \in 1..Len(line) : line[i] >= 2048})
              + Cardinality({i \in 1..Len(line) : line[i] >= 65536})

Max(S) == CHOOSE n \in S : \A k \in S : k <= n
Min(a, b) == IF a <= b THEN a ELSE b

CodeboxNew(text) ==
    LET lines == Lines(text)
        cells == {<<x, y>> : x \in 0..(Max({Len(lines[i]) : i \in 1..Len(lines)} \cup {0}) - 1),
                             y \in 0..(Len(lines) - 1)}
    IN [code |-> [pos \in {q \in cells : q[1] < Len(lines[q[2] + 1])} |->
                    LET chr == lines[pos[2] + 1][pos[1] + 1] IN
                    IF chr = Ord[" "] THEN Noop ELSE Op(chr)],
        width |-> Max({ByteLen(lines[i]) : i \in 1..Len(lines)} \cup {0}),
        height |-> Len(lines)]

get_instruction(cb, pos) == IF pos \in DOMAIN cb.code THEN cb.code[pos] ELSE Noop

\* set_instruction of a codebox that stores the cells of its rectangle alone
set_instruction_Inside(cb, pos, instr) ==
    IF pos[1] < cb.width /\ pos[2] < cb.height
    THEN [cb EXCEPT !.code = [q \in (DOMAIN cb.code) \cup {pos} |->
                                 IF q = pos THEN Op(instr) ELSE cb.code[q]]]
    ELSE cb

set_instruction(cb, pos, instr) ==
    [cb EXCEPT !.code = [q \in (DOMAIN cb.code) \cup {pos} |->
                            IF q = pos THEN Op(instr) ELSE cb.code[q]]]

\* -------------------------------------------------------- interpreter.rs
\* The interpreter is the record [codebox, stack, ptr, dir, state, mode,
\* input_stream, output]: mode is Normal or Text(q), input_stream the characters
\* not yet read, output the characters written so far.  An instruction yields
\* [m, err, hang]: the interpreter after it, the RuntimeError it returned
\* ("None" for Ok), and whether it never returns.
Directions == {"North", "East", "South", "West"}
Normal == <<>>
Text(q) == <<q>>

Ok(m) == [m |-> m, err |-> "None", hang |-> FALSE]
Err(m, e) == [m |-> m, err |-> e, hang |-> FALSE]

\* self.stack.top().<op>()? for an operation of Stack that yields [st, err]
OnTop(m, r) ==
    [m |-> [m EXCEPT !.stack = SetCurr(m.stack, r.st)], err |-> r.err, hang |-> FALSE]

PushVal(m, v) == [m EXCEPT !.stack = SetCurr(m.stack, push(top(m.stack), v))]

\* get_wrapped_coord that wraps one cell late
get_wrapped_coord_Late(coord, incr, max) ==
    IF coord = 0 /\ incr < 0 THEN max - 1
    ELSE IF coord + incr > max THEN 0
    ELSE coord + incr

get_wrapped_coord(coord, incr, max) ==
    IF coord = 0 /\ incr < 0 THEN max - 1
    ELSE IF coord + incr >= max THEN 0
    ELSE coord + incr

get_next_pos(m) ==
    LET x == m.ptr[1]
        y == m.ptr[2]
    IN CASE m.dir = "North" -> <<x, get_wrapped_coord(y, -1, m.codebox.height)>>
         [] m.dir = "East" -> <<get_wrapped_coord(x, 1, m.codebox.width), y>>
         [] m.dir = "South" -> <<x, get_wrapped_coord(y, 1, m.codebox.height)>>
         [] m.dir = "West" -> <<get_wrapped_coord(x, -1, m.codebox.width), y>>

\* while get_instruction(ptr) == Noop { ptr = get_next_pos() }.  After one
\* advance the moving coordinate is below its dimension and the pointer walks a
\* cycle of at most that many cells, none of which changes: once `fuel` cells,
\* the whole cycle, were Noop the loop never ends.
RECURSIVE SkipNoops(_, _)
SkipNoops(m, fuel) ==
    IF get_instruction(m.codebox, m.ptr) # Noop THEN [m |-> m, hang |-> FALSE]
    ELSE IF fuel = 0 THEN [m |-> m, hang |-> TRUE]
    ELSE SkipNoops([m EXCEPT !.ptr = get_next_pos(m)], fuel - 1)

\* move_to_next without its loop: one advance in either mode
move_to_next_Single(m) == [m |-> [m EXCEPT !.ptr = get_next_pos(m)], hang |-> FALSE]

\* move_to_next without the test of the mode: noops are skipped in text mode too
move_to_next_Skipping(m) ==
    SkipNoops([m EXCEPT !.ptr = get_next_pos(m)], m.codebox.width + m.codebox.height + 1)

move_to_next(m) ==
    LET m1 == [m EXCEPT !.ptr = get_next_pos(m)] IN
    IF m.mode = Normal
    THEN SkipNoops(m1, m.codebox.width + m.codebox.height + 1)
    ELSE [m |-> m1, hang |-> FALSE]

\* chr.to_digit(16) for '0'..='9' | 'a'..='f'
ToDigit16(chr) == IF chr <= Ord["9"] THEN chr - Ord["0"] ELSE chr - Ord["a"] + 10

push_num(m, chr) == PushVal(m, F(ToDigit16(chr)))

push_char(m, chr) == PushVal(m, F(chr))

switch_parse_mode(m, quote_type) ==
    [m EXCEPT !.mode = IF m.mode = Normal THEN Text(quote_type) ELSE Normal]

\* yields [m, err, pos]
load_pos(m) ==
    LET py == pop(top(m.stack)) IN
    IF py.err # "None"
    THEN [m |-> [m EXCEPT !.stack = SetCurr(m.stack, py.st)], err |-> py.err, pos |-> <<0, 0>>]
    ELSE LET px == pop(py.st)
             m2 == [m EXCEPT !.stack = SetCurr(m.stack, px.st)]
             x == px.val
             y == py.val
         IN IF px.err # "None" THEN [m |-> m2, err |-> px.err, pos |-> <<0, 0>>]
            ELSE IF x[1] < 0 \/ y[1] < 0 \/ ~IsIntegral(x) \/ ~IsIntegral(y)
                 THEN [m |-> m2, err |-> "InvalidPosition", pos |-> <<0, 0>>]
                 ELSE [m |-> m2, err |-> "None", pos |-> <<AsUsize(x), AsUsize(y)>>]

\* yields [err, chr]; the values of the model are all below u32::MAX
f64_to_char(v) ==
    IF v[1] < 0 \/ ~IsIntegral(v) THEN [err |-> "CharConversionFailure", chr |-> 0]
    ELSE IF ~IsScalar(v[1]) THEN [err |-> "CharConversionFailure", chr |-> 0]
    ELSE [err |-> "None", chr |-> v[1]]

\* format!("{}", f64): the decimal expansion, which ends for a dyadic value
RECURSIVE DecDigits(_)
DecDigits(n) ==
    IF n < 10 THEN <<Ord["0"] + n>>
    ELSE Append(DecDigits(n \div 10), Ord["0"] + (n % 10))

RECURSIVE FracDigits(_, _)
FracDigits(r, d) ==
    IF r = 0 THEN <<>>
    ELSE <<Ord["0"] + ((r * 10) \div d)>> \o FracDigits((r * 10) % d, d)

FormatF64(v) ==
    LET n == Abs(v[1])
        d == Den(v)
    IN (IF IsNeg(v) THEN <<Ord["-"]>> ELSE <<>>)
       \o DecDigits(n \div d)
       \o (IF n % d = 0 THEN <<>> ELSE <<Ord["."]>> \o FracDigits(n % d, d))

\* (*self.output)(s)
Write(m, s) == [m EXCEPT !.output = m.output \o s]

print_char(m, v) ==
    LET c == f64_to_char(v) IN
    IF c.err # "None" THEN Err(m, c.err) ELSE Ok(Write(m, <<c.chr>>))

IsLiteral(instr) == instr \in Ord["0"]..Ord["9"] \/ instr \in Ord["a"]..Ord["f"]

\* a quarter turn in place of '/'
MirrorSlash_Quarter(d) ==
    CASE d = "North" -> "East"
      [] d = "East" -> "South"
      [] d = "South" -> "West"
      [] d = "West" -> "North"

\* '/'
MirrorSlash(d) ==
    CASE d = "North" -> "East"
      [] d = "East" -> "North"
      [] d = "South" -> "West"
      [] d = "West" -> "South"

\* '\\'
MirrorBackslash(d) ==
    CASE d = "North" -> "West"
      [] d = "East" -> "South"
      [] d = "South" -> "East"
      [] d = "West" -> "North"

\* Direction::reverse
Reverse(d) ==
    CASE d = "North" -> "South"
      [] d = "East" -> "West"
      [] d = "South" -> "North"
      [] d = "West" -> "East"

\* '|'
MirrorBar(d) == IF d = "West" \/ d = "East" THEN Reverse(d) ELSE d

\* '_'
MirrorUnderscore(d) == IF d = "North" \/ d = "North" THEN Reverse(d) ELSE d

\* '?'
Trampoline(m) ==
    LET p == pop(top(m.stack))
        m1 == [m EXCEPT !.stack = SetCurr(m.stack, p.st)]
    IN IF p.err # "None" THEN Err(m1, p.err)
       ELSE IF IsZero(p.val)
            THEN [m |-> move_to_next(m1).m, err |-> "None", hang |-> move_to_next(m1).hang]
            ELSE Ok(m1)

\* 'n'
PrintNum(m) ==
    LET p == pop(top(m.stack))
        m1 == [m EXCEPT !.stack = SetCurr(m.stack, p.st)]
    IN IF p.err # "None" THEN Err(m1, p.err) ELSE Ok(Write(m1, FormatF64(p.val)))

\* 'o'
PrintTop(m) ==
    LET p == pop(top(m.stack))
        m1 == [m EXCEPT !.stack = SetCurr(m.stack, p.st)]
    IN IF p.err # "None" THEN Err(m1, p.err) ELSE print_char(m1, p.val)

\* 'i'
ReadInput(m) ==
    IF m.input_stream = <<>> THEN Ok(PushVal(m, F(-1)))
    ELSE Ok(push_char([m EXCEPT !.input_stream = Tail(@)], Head(m.input_stream)))

\* 'g'
GetCell(m) ==
    LET l == load_pos(m) IN
    IF l.err # "None" THEN Err(l.m, l.err)
    ELSE LET cell == get_instruction(l.m.codebox, l.pos) IN
         IF cell # Noop THEN Ok(push_char(l.m, cell[1])) ELSE Ok(PushVal(l.m, F(0)))

\* 'p'
PutCell(m) ==
    LET l == load_pos(m) IN
    IF l.err # "None" THEN Err(l.m, l.err)
    ELSE LET p == pop(top(l.m.stack))
             m1 == [l.m EXCEPT !.stack = SetCurr(l.m.stack, p.st)]
             c == f64_to_char(p.val)
         IN IF p.err # "None" THEN Err(m1, p.err)
            ELSE IF c.err # "None" THEN Err(m1, c.err)
            ELSE Ok([m1 EXCEPT !.codebox = set_instruction(m1.codebox, l.pos, c.chr)])

\* '.' with the coordinates the other way round
Jump_Swapped(m) ==
    LET l == load_pos(m) IN
    IF l.err # "None" THEN Err(l.m, l.err) ELSE Ok([l.m EXCEPT !.ptr = <<l.pos[2], l.pos[1]>>])

\* '.'
Jump(m) ==
    LET l == load_pos(m) IN
    IF l.err # "None" THEN Err(l.m, l.err) ELSE Ok([l.m EXCEPT !.ptr = l.pos])

\* the match of execute_instruction; rnd is what rand::random() returns
Dispatch(m, instr, rnd) ==
    LET s == top(m.stack) IN
    CASE IsLiteral(instr) -> Ok(push_num(m, instr))
      [] instr = Ord["+"] -> OnTop(m, add(s))
      [] instr = Ord["-"] -> OnTop(m, subtract(s))
      [] instr = Ord["*"] -> OnTop(m, multiply(s))
      [] instr = Ord[","] -> OnTop(m, divide(s))
      [] instr = Ord["%"] -> OnTop(m, modulo(s))
      [] instr = Ord["="] -> OnTop(m, equals(s))
      [] instr = Ord[")"] -> OnTop(m, greater_than(s))
      [] instr = Ord["("] -> OnTop(m, less_than(s))
      [] instr = Ord[":"] -> OnTop(m, dup(s))
      [] instr = Ord["~"] -> OnTop(m, [st |-> pop(s).st, err |-> pop(s).err])
      [] instr = Ord["$"] -> OnTop(m, swap(s, 2))
      [] instr = Ord["@"] -> OnTop(m, swap(s, 3))
      [] instr = Ord["}"] -> OnTop(m, [st |-> shift_right(s), err |-> "None"])
      [] instr = Ord["{"] -> OnTop(m, [st |-> shift_left(s), err |-> "None"])
      [] instr = Ord["["] ->
            [m |-> [m EXCEPT !.stack = split_stack(m.stack).ps],
             err |-> split_stack(m.stack).err, hang |-> FALSE]
      [] instr = Ord["]"] -> Ok([m EXCEPT !.stack = drop_stack(m.stack)])
      [] instr = Ord["l"] -> OnTop(m, [st |-> push_len(s), err |-> "None"])
      [] instr = Ord["r"] -> OnTop(m, [st |-> reverse(s), err |-> "None"])
      [] instr = Ord["&"] -> OnTop(m, swap_register(s))
      [] instr = Ord["!"] ->
            [m |-> move_to_next(m).m, err |-> "None", hang |-> move_to_next(m).hang]
      [] instr = Ord["?"] -> Trampoline(m)
      [] instr = Ord["^"] -> Ok([m EXCEPT !.dir = "North"])
      [] instr = Ord[">"] -> Ok([m EXCEPT !.dir = "East"])
      [] instr = Ord["v"] -> Ok([m EXCEPT !.dir = "South"])
      [] instr = Ord["<"] -> Ok([m EXCEPT !.dir = "West"])
      [] instr = Ord["/"] -> Ok([m EXCEPT !.dir = MirrorSlash(m.dir)])
      [] instr = Ord["\\"] -> Ok([m EXCEPT !.dir = MirrorBackslash(m.dir)])
      [] instr = Ord["|"] -> Ok([m EXCEPT !.dir = MirrorBar(m.dir)])
      [] instr = Ord["_"] -> Ok([m EXCEPT !.dir = MirrorUnderscore(m.dir)])
      [] instr = Ord["#"] -> Ok([m EXCEPT !.dir = Reverse(m.dir)])
      [] instr = Ord["x"] -> Ok([m EXCEPT !.dir = rnd])
      [] instr = Ord["."] -> Jump(m)
      [] instr = Ord["\""] \/ instr = Ord["'"] -> Ok(switch_parse_mode(m, instr))
      [] instr = Ord["n"] -> PrintNum(m)
      [] instr = Ord["o"] -> PrintTop(m)
      [] instr = Ord["i"] -> ReadInput(m)
      [] instr = Ord["g"] -> GetCell(m)
      [] instr = Ord["p"] -> PutCell(m)
      [] instr = Ord[";"] -> Ok([m EXCEPT !.state = "Done"])
      [] OTHER -> Err(m, "InvalidInstruction")

execute_instruction(m, instr, rnd) ==
    IF m.mode # Normal /\ instr # m.mode[1]
    THEN Ok(push_char(m, instr))
    ELSE Dispatch(m, instr, rnd)

\* step that moves to the next instruction after an error too
step_Advancing(m, rnd) ==
    LET instr == get_instruction(m.codebox, m.ptr)
        r == IF instr # Noop THEN execute_instruction(m, instr[1], rnd)
             ELSE IF m.mode # Normal THEN Ok(push_char(m, Ord[" "]))
             ELSE Ok(m)
    IN IF r.hang THEN r
       ELSE [m |-> move_to_next(r.m).m, err |-> r.err, hang |-> move_to_next(r.m).hang]

\* yields [m, err, hang]
step(m, rnd) ==
    LET instr == get_instruction(m.codebox, m.ptr)
        r == IF instr # Noop THEN execute_instruction(m, instr[1], rnd)
             ELSE IF m.mode # Normal THEN Ok(push_char(m, Ord[" "]))
             ELSE Ok(m)
    IN IF r.err # "None" \/ r.hang THEN r
       ELSE [m |-> move_to_next(r.m).m, err |-> "None", hang |-> move_to_next(r.m).hang]

\* --------------------------------------------------------------- programs
\* the lines of a source text, joined by line feeds
RECURSIVE Join(_)
Join(lines) ==
    IF lines = <<>> THEN <<>>
    ELSE IF Len(lines) = 1 THEN lines[1]
    ELSE lines[1] \o <<LF>> \o Join(Tail(lines))

\* test_helloworld
HelloWorld ==
    Join(<< Str(<< "\"", "h", "e", "l", "l", "o", ",", " ", "w", "o", "r", "l", "d", "\"", "r", "v" >>),
            Str(<< " ", " ", " ", " ", " ", " ", " ", " ", " ", " ", "o", ";", "!", "?", "l", "<" >>) >>)

\* test_fizzbuzz, as the four lines of the program
FizzBuzz ==
    Join(<< Str(<< "0", "v", "o", "a", " ", " ", " ", " ", " ", " ", " ", " ", " ", " ", " ", " ",
                   " ", " ", " ", " ", " ", " ", " ", " ", " ", " ", " ", " ", " ", " ", " ", " ",
                   "~", "/", "?", "=", "0", ":", "\\" >>),
            Str(<< " ", "v", "o", "a", " ", " ", " ", " ", " ", " ", " ", " ", " ", " ", " ", " ",
                   "o", "o", "o", "o", "'", "B", "u", "z", "z", "'", "~", "<", " ", " ", " ", " ",
                   " ", "/" >>),
            Str(<< " ", ">", "1", "+", ":", "a", "a", "*", "1", "+", "=", "?", ";", ":", ":", "5",
                   "%", ":", "{", "3", "%", ":", "@", "*", "?", "\\", "?", "/", "'", "z", "z", "i",
                   "F", "'", "o", "o", "o", "o", "/" >>),
            Str(<< " ", "^", "o", "a", " ", " ", " ", " ", " ", " ", " ", " ", " ", " ", " ", " ",
                   " ", " ", " ", " ", " ", "n", ":", "~", "~", "/" >>) >>)

\* test_quine
Quine ==
    Join(<< Str(<< "\"", "r", "0", "0", "g", "o", "l", "?", "!", ";", "4", "0", "." >>) >>)

Corpus == {HelloWorld, FizzBuzz, Quine}

\* 'x' sends the pointer onto '/', '\\' and '#', which send it back from every side
MirrorArena ==
    Join(<< Str(<< "x", "/", "#" >>),
            Str(<< "\\", " ", " " >>),
            Str(<< "#", " ", " " >>) >>)

\* 'x' sends the pointer onto '_' and '|', each met from all four sides
CrossArena ==
    Join(<< Str(<< "x", "_", "|" >>),
            Str(<< "_", " ", " " >>),
            Str(<< "|", " ", " " >>) >>)

\* 'o' fails on -1 and leaves 65 on the stack
FailThenPrint ==
    Join(<< Str(<< "\"", "A", "\"", "0", "1", "-", "o", ";" >>) >>)

\* writes ';' below the only line and jumps to that row
JumpOutside ==
    Join(<< Str(<< "\"", ";", "\"", "1", "1", "p", "0", "1", "." >>) >>)

\* text mode along a row and down a column, over cells of the source, spaces and cells the source lacks
TextGrid ==
    Join(<< Str(<< "'", "a", "\"", " ", ";", "'", "v" >>),
            Str(<< " ", " ", " ", " ", " ", "\"" >>),
            <<>>,
            Str(<< " ", " ", " ", " ", " ", "b" >>),
            Str(<< " ", " ", " ", " ", " ", "\"" >>),
            Str(<< " ", " ", " ", " ", " ", ";" >>) >>)

\* '!' with a space right after it
BangGap ==
    Join(<< Str(<< "1", "!", " ", ";", "n", ";" >>) >>)

\* '?' on 0 with a space right after it
QueryGap ==
    Join(<< Str(<< "0", "?", " ", ";", "1", "n", ";" >>) >>)

\* '[' under a register that is set, '&' in the new substack, then ']'; then
\* '[' and ']' with nothing between them, and one more ']'
SplitDrop ==
    Join(<< Str(<< "5", "&", "1", "2", "3", "4", "2", "[", "&", "]", "2", "[", "]", "]",
                   ";" >>) >>)

\* 'p' below the only line, twice to one position, and of a space; 'g' of what
\* was written, of the space the line starts with and of a cell never written
PutThenGet ==
    Join(<< Str(<< " ", "\"", "A", "\"", "0", "7", "p", "\"", "B", "\"", "1", "7", "p",
                   "0", "7", "g", "n", "0", "0", "g", "n", "0", "8", "g", "n",
                   "\"", "C", "\"", "0", "7", "p", "0", "7", "g", "n", "1", "7", "g", "n",
                   "\"", " ", "\"", "2", "7", "p", "2", "7", "g", "n", ";" >>) >>)

\* a quote and U+00E9, which takes two bytes in UTF-8
TwoByteChar == Join(<< <<Ord["'"], 233>> >>)

\* '-' and ',' above a value that stays: 9 / (5 - 3)
SubtractDivide == Join(<< Str(<< "9", "5", "3", "-", ",", "n", ";" >>) >>)

\* '$' and '@' on [1, 2, 3, 4], with ']' to empty the base between them
SwapTests ==
    Join(<< Str(<< "1", "2", "3", "4", "$", "]", "1", "2", "3", "4", "@", ";" >>) >>)

\* '}' and then '{', '{' and then '}', on [1, 2, 3, 4]
ShiftTests == Join(<< Str(<< "1", "2", "3", "4", "}", "{", "{", "}", ";" >>) >>)

\* 'r' twice on [1, 2, 3, 4] under a register that is set
ReverseTwice == Join(<< Str(<< "5", "&", "1", "2", "3", "4", "r", "r", ";" >>) >>)

\* a source without a character, and one of two spaces
EmptySource == <<>>
AllSpaces == Join(<< Str(<< " ", " " >>) >>)

\* '.' to a row below the only line, where no cell was written
JumpToEmptyRow == Join(<< Str(<< "0", "5", ".", ";" >>) >>)

\* 'p' of a space onto the space before ';', 'g' of that cell, and the pointer
\* on its way to it
SpaceWritten ==
    Join(<< Str(<< "\"", " ", "\"", "a", "0", "p", "a", "0", "g", "n", " ", ";" >>) >>)

Grids ==
    {MirrorArena, CrossArena, FailThenPrint, JumpOutside, TextGrid, BangGap, QueryGap,
     SplitDrop, PutThenGet, TwoByteChar, SubtractDivide, SwapTests, ShiftTests,
     ReverseTwice, EmptySource, AllSpaces, JumpToEmptyRow, SpaceWritten}

\* One-line programs: k times 'i', which load what the input holds, two
\* instructions, and ';'.
ProbeAlphabet ==
    {Ord[c] : c \in {"&", "$", "@", "}", "{", "r", "l", ":", "~", "[", "]",
                     "+", "-", "*", ",", "%", "=", ")", "(", "2", "?", ".", "n", "o",
                     "g", "p", "i", "!", "#", "\"", "'", "A"}}

Load(k) == [i \in 1..k |-> Ord["i"]]

Probe(k, a, b) == Load(k) \o <<a, b, Ord[";"]>>

\* what the input may hold: U+0000 .. U+0003
InputChars == 0..2

InputsUpTo(k) == UNION {[1..j -> InputChars] : j \in 0..k}

\* ---------------------------------------------------------- state machine
\* source is the text given to Interpreter::new.  rte is where the host stands
\* with run_to_end: "idle" before the first call, "running" inside the loop,
\* "Ok" or the RuntimeError it returned, "Hang" when a step never returns.
\* calls counts the calls of run_to_end.  prev is <<>> until a step is taken,
\* and then <<[m, err, hang]>>: the interpreter as the last step found it, and
\* how that step ended.  older holds the same record for the steps before the
\* last one, the latest first, MaxTrail of them at most.  puts maps each position
\* a 'p' has written to the code point of the last value written there.
VARIABLES source, codebox, stack, ptr, dir, state, mode, input_stream, output,
          rte, calls, prev, older, puts

vars == <<source, codebox, stack, ptr, dir, state, mode, input_stream, output,
          rte, calls, prev, older, puts>>

Self ==
    [codebox |-> codebox, stack |-> stack, ptr |-> ptr, dir |-> dir, state |-> state,
     mode |-> mode, input_stream |-> input_stream, output |-> output]

\* Interpreter::new(code, input_stream)
New(code, input) ==
    /\ source = code
    /\ codebox = CodeboxNew(code)
    /\ stack = ProgramStackNew
    /\ input_stream = input
    /\ ptr = <<0, 0>>
    /\ dir = "East"
    /\ state = "Running"
    /\ mode = Normal
    /\ output = <<>>
    /\ rte = "idle"
    /\ calls = 0
    /\ prev = <<>>
    /\ older = <<>>
    /\ puts = <<>>

\* every value of every substack
AllEntries(ps) ==
    LET all == <<ps.base>> \o ps.substacks IN
    {all[i].entries[j] : <<i, j>> \in {p \in (1..Len(all)) \X (1..MaxStack + 1) :
                                            p[2] <= Len(all[p[1]].entries)}}
    \cup {all[i].register[1] : i \in {k \in 1..Len(all) : all[k].register # <<>>}}

RECURSIVE CountEntries(_)
CountEntries(stacks) ==
    IF stacks = <<>> THEN 0 ELSE Len(Head(stacks).entries) + CountEntries(Tail(stacks))

\* the bounds of the model
InBounds(m) ==
    /\ Len(m.stack.substacks) <= MaxSubstacks
    /\ CountEntries(<<m.stack.base>> \o m.stack.substacks) <= MaxStack
    /\ \A v \in AllEntries(m.stack) : InModel(v)
    /\ Len(m.output) <= MaxOutput

\* what rand::random() may return in this step: it is called by 'x' alone
RandomChoices(m) ==
    IF m.mode = Normal /\ get_instruction(m.codebox, m.ptr) = Op(Ord["x"])
    THEN Directions ELSE {"East"}

\* the host calls run_to_end
RunToEnd ==
    /\ rte \notin {"running", "Hang"}
    /\ calls < MaxCalls
    /\ rte' = "running"
    /\ calls' = calls + 1
    /\ UNCHANGED <<source, codebox, stack, ptr, dir, state, mode, input_stream, output, prev,
                   older, puts>>

\* the step of m executes 'p'
Puts(m) == m.mode = Normal /\ get_instruction(m.codebox, m.ptr) = Op(Ord["p"])

\* what 'p' finds on the stack, the current substack being [.., v, x, y]
Written(m) ==
    LET e == curr(m.stack).entries
        n == Len(e)
    IN [pos |-> <<e[n - 1][1], e[n][1]>>, v |-> e[n - 2][1]]

\* one turn of the loop of run_to_end: self.step()?
Step ==
    /\ rte = "running"
    /\ state # "Done"
    /\ \E rnd \in RandomChoices(Self) :
          \E r \in {step(Self, rnd)} :
          /\ InBounds(r.m)
          /\ codebox' = r.m.codebox
          /\ stack' = r.m.stack
          /\ ptr' = r.m.ptr
          /\ dir' = r.m.dir
          /\ state' = r.m.state
          /\ mode' = r.m.mode
          /\ input_stream' = r.m.input_stream
          /\ output' = r.m.output
          /\ rte' = IF r.hang THEN "Hang" ELSE IF r.err # "None" THEN r.err ELSE "running"
          /\ prev' = <<[m |-> Self, err |-> r.err, hang |-> r.hang]>>
          /\ puts' = IF Puts(Self) /\ r.err = "None" /\ ~r.hang
                     THEN LET w == Written(Self) IN
                          [q \in (DOMAIN puts) \cup {w.pos} |->
                              IF q = w.pos THEN w.v ELSE puts[q]]
                     ELSE puts
    /\ older' = SubSeq(prev \o older, 1, Min(Len(prev \o older), MaxTrail))
    /\ UNCHANGED <<source, calls>>

\* the loop of run_to_end ends: Ok(())
RunToEndOk ==
    /\ rte = "running"
    /\ state = "Done"
    /\ rte' = "Ok"
    /\ UNCHANGED <<source, codebox, stack, ptr, dir, state, mode, input_stream, output, calls,
                   prev, older, puts>>

Next == RunToEnd \/ Step \/ RunToEndOk

Init ==
    \/ \E code \in Corpus \cup Grids : New(code, <<>>)
    \/ \E k \in 0..MaxLoad, a \in ProbeAlphabet, b \in ProbeAlphabet :
          \E input \in InputsUpTo(k) : New(Probe(k, a, b), input)

Spec == Init /\ [][Next]_vars

\* the test corpus, run with empty input as the tests run it
InitCorpus == \E code \in Corpus : New(code, <<>>)

\* Step can be taken: ENABLED <<Step>>_vars, written as a predicate of the state
CanStep ==
    /\ rte = "running"
    /\ state # "Done"
    /\ \E rnd \in RandomChoices(Self) :
          \E r \in {step(Self, rnd)} :
          /\ InBounds(r.m)
          /\ \/ r.m # Self
             \/ r.err # "None"
             \/ r.hang
             \/ prev # <<[m |-> Self, err |-> "None", hang |-> FALSE]>>
             \/ older # SubSeq(prev \o older, 1, Min(Len(prev \o older), MaxTrail))

\* the host calls run_to_end once the interpreter is built (bin/fish.rs), and the
\* loop of run_to_end goes on to its next step (weak fairness of Step, with
\* CanStep for its ENABLED)
Fairness ==
    /\ WF_vars(RunToEnd /\ calls = 0)
    /\ ([]<>(~CanStep) \/ []<><<Step>>_vars)
    /\ WF_vars(RunToEndOk)

CorpusSpec == InitCorpus /\ [][Next]_vars /\ Fairness

\* ------------------------------------------------------------------ claims
Errors == {"Underflow", "InvalidInstruction", "InvalidPosition", "CharConversionFailure"}

\* run_to_end has returned no error and no step has failed to return
NoErrorSoFar == rte \in {"idle", "running", "Ok"}

HelloWorldText == Str(<<"h", "e", "l", "l", "o", ",", " ", "w", "o", "r", "l", "d">>)

\* C1: test_helloworld, run with empty input, reaches Done, run_to_end returns
\* Ok with no RuntimeError on the way, and what it has written when it is Done
\* is exactly "hello, world".
C1_HelloWorld ==
    (source = HelloWorld) =>
        /\ []NoErrorSoFar
        /\ <>(state = "Done" /\ rte = "Ok")
        /\ [](state = "Done" => output = HelloWorldText)

C1_Witness ==
    source = HelloWorld /\ state = "Done" /\ rte = "Ok" /\ output = HelloWorldText

\* C2: test_quine, run with empty input, reaches Done, run_to_end returns Ok
\* with no RuntimeError on the way, and what it has written when it is Done is
\* its own source text, character for character.
C2_Quine ==
    (source = Quine) =>
        /\ []NoErrorSoFar
        /\ <>(state = "Done" /\ rte = "Ok")
        /\ [](state = "Done" => output = source)

C2_Witness ==
    source = Quine /\ state = "Done" /\ rte = "Ok" /\ output = source /\ Len(output) = 13

\* the k-th line of FizzBuzz, for k in 1..100
FizzBuzzLine(k) ==
    IF k % 15 = 0 THEN Str(<<"F", "i", "z", "z", "B", "u", "z", "z">>)
    ELSE IF k % 3 = 0 THEN Str(<<"F", "i", "z", "z">>)
    ELSE IF k % 5 = 0 THEN Str(<<"B", "u", "z", "z">>)
    ELSE IF k < 10 THEN <<Ord["0"] + k>>
    ELSE IF k < 100 THEN <<Ord["0"] + (k \div 10), Ord["0"] + (k % 10)>>
    ELSE Str(<<"1", "0", "0">>)

\* lines 10t+1 .. 10t+10, a line feed after each
FizzBuzzBlock(t) ==
    LET L(j) == FizzBuzzLine(10 * t + j) \o <<LF>> IN
    L(1) \o L(2) \o L(3) \o L(4) \o L(5) \o L(6) \o L(7) \o L(8) \o L(9) \o L(10)

FizzBuzzText ==
    FizzBuzzBlock(0) \o FizzBuzzBlock(1) \o FizzBuzzBlock(2) \o FizzBuzzBlock(3)
    \o FizzBuzzBlock(4) \o FizzBuzzBlock(5) \o FizzBuzzBlock(6) \o FizzBuzzBlock(7)
    \o FizzBuzzBlock(8) \o FizzBuzzBlock(9)

\* C3: test_fizzbuzz, run with empty input, reaches Done, run_to_end returns Ok
\* with no RuntimeError on the way, and what it has written when it is Done is
\* the first 100 lines of FizzBuzz, a line feed after each of them.
C3_FizzBuzz ==
    (source = FizzBuzz) =>
        /\ []NoErrorSoFar
        /\ <>(state = "Done" /\ rte = "Ok")
        /\ [](state = "Done" => output = FizzBuzzText)

C3_Witness ==
    source = FizzBuzz /\ state = "Done" /\ rte = "Ok" /\ output = FizzBuzzText

\* --- the last step, read from prev
\* a step has been taken; Before is the interpreter as it found it
Stepped == prev # <<>>
Before == prev[1].m
\* the cell the last step fetched
Fetched == get_instruction(Before.codebox, Before.ptr)
\* the last step dispatched instruction c
Ran(c) == Stepped /\ Before.mode = Normal /\ Fetched = Op(Ord[c])
\* the last step returned Ok(())
Returned == prev[1].err = "None" /\ ~prev[1].hang
\* the current substack as the last step found it and as it left it
Was == curr(Before.stack)
Now == curr(stack)
\* the substacks below the current one are as they were
BelowKept ==
    /\ stack.base = IF stack.substacks = <<>> THEN Now ELSE Before.stack.base
    /\ Len(stack.substacks) = Len(Before.stack.substacks)
    /\ \A i \in 1..(Len(stack.substacks) - 1) : stack.substacks[i] = Before.stack.substacks[i]

\* C4: '&' toggles the register of the current substack: with the register
\* empty it pops one value into it, Underflow when the substack is empty; with
\* a value in the register it pushes that value and leaves the register empty.
C4_RegisterToggle ==
    Ran("&") =>
        IF Was.register = <<>>
        THEN IF Was.entries = <<>> THEN prev[1].err = "Underflow"
             ELSE /\ prev[1].err = "None"
                  /\ Now.register = <<Last(Was.entries)>>
                  /\ Now.entries = Front(Was.entries)
        ELSE /\ prev[1].err = "None"
             /\ Now.entries = Append(Was.entries, Was.register[1])
             /\ Now.register = <<>>

\* '&' has pushed the value of the register and the register still holds it
C4_Witness ==
    /\ Ran("&")
    /\ Was.register # <<>>
    /\ Now.entries = Append(Was.entries, Was.register[1])
    /\ Now.register = Was.register

\* C5: '_' reverses the direction when it is North or South and leaves East
\* and West alone; '|' reverses East and West and leaves North and South alone.
C5_Mirrors ==
    /\ Ran("_") =>
          dir = IF Before.dir \in {"North", "South"} THEN Reverse(Before.dir) ELSE Before.dir
    /\ Ran("|") =>
          dir = IF Before.dir \in {"East", "West"} THEN Reverse(Before.dir) ELSE Before.dir

\* '_' met travelling South, and the pointer travels on South
C5_Witness == Ran("_") /\ Before.dir = "South" /\ dir = "South"

\* the top n values of entries e replaced by the values of t
OnTopOf(e, n, t) == SubSeq(e, 1, Len(e) - n) \o t
\* the i-th value from the top, the top being the first
FromTop(e, i) == e[Len(e) + 1 - i]

\* C6 as claimed: '@' on [..., a, b, c] gives [..., b, c, a], and '$' on
\* [..., a, b] gives [..., b, a].
C6_RotateUp ==
    /\ (Ran("@") /\ Len(Was.entries) >= 3) =>
          LET e == Was.entries IN
          Now.entries = OnTopOf(e, 3, <<FromTop(e, 2), FromTop(e, 1), FromTop(e, 3)>>)
    /\ (Ran("$") /\ Len(Was.entries) >= 2) =>
          LET e == Was.entries IN
          Now.entries = OnTopOf(e, 2, <<FromTop(e, 1), FromTop(e, 2)>>)

\* C6 as the code has it: '@' on [..., a, b, c] returns Ok and gives
\* [..., c, a, b], the top becoming the third from the top and the other two
\* keeping their order; '$' on [..., a, b] returns Ok and gives [..., b, a].
\* Register and lower substacks are untouched.
C6_RotateDown ==
    /\ (Ran("@") /\ Len(Was.entries) >= 3) =>
          LET e == Was.entries IN
          /\ prev[1].err = "None"
          /\ Now.entries = OnTopOf(e, 3, <<FromTop(e, 1), FromTop(e, 3), FromTop(e, 2)>>)
          /\ Now.register = Was.register
          /\ BelowKept
    /\ (Ran("$") /\ Len(Was.entries) >= 2) =>
          LET e == Was.entries IN
          /\ prev[1].err = "None"
          /\ Now.entries = OnTopOf(e, 2, <<FromTop(e, 1), FromTop(e, 2)>>)
          /\ Now.register = Was.register
          /\ BelowKept

\* '@' has run on three values no two of which are equal
C6_Witness ==
    /\ Ran("@")
    /\ Len(Was.entries) = 3
    /\ Cardinality({Was.entries[i] : i \in 1..3}) = 3
    /\ Now.entries = <<Was.entries[3], Was.entries[1], Was.entries[2]>>

\* C7 as claimed: '}' moves the bottom value to the top and '{' moves the top
\* value to the bottom, the others keeping their order; an empty or
\* one-value substack is left as it is.
C7_ShiftAsClaimed ==
    /\ Ran("}") =>
          Now.entries = IF Len(Was.entries) <= 1 THEN Was.entries
                        ELSE Append(Tail(Was.entries), Head(Was.entries))
    /\ Ran("{") =>
          Now.entries = IF Len(Was.entries) <= 1 THEN Was.entries
                        ELSE <<Last(Was.entries)>> \o Front(Was.entries)

\* C7 as the code has it: '}' returns Ok and moves the top value to the bottom,
\* '{' returns Ok and moves the bottom value to the top, the others keeping
\* their order; an empty or one-value substack is left as it is.  Register and
\* lower substacks are untouched.
C7_Shift ==
    /\ Ran("}") =>
          /\ prev[1].err = "None"
          /\ Now.entries = IF Len(Was.entries) <= 1 THEN Was.entries
                           ELSE <<Last(Was.entries)>> \o Front(Was.entries)
          /\ Now.register = Was.register
          /\ BelowKept
    /\ Ran("{") =>
          /\ prev[1].err = "None"
          /\ Now.entries = IF Len(Was.entries) <= 1 THEN Was.entries
                           ELSE Append(Tail(Was.entries), Head(Was.entries))
          /\ Now.register = Was.register
          /\ BelowKept

\* '}' has run on three values no two of which are equal
C7_Witness ==
    /\ Ran("}")
    /\ Len(Was.entries) = 3
    /\ Cardinality({Was.entries[i] : i \in 1..3}) = 3
    /\ Now.entries = <<Was.entries[3], Was.entries[1], Was.entries[2]>>

\* C8: the state is Done once ';' has been executed in Normal mode, and Done
\* once run_to_end has returned an error (the loop of a further call of
\* run_to_end then executes no instruction).
C8_DoneAfterError ==
    /\ (Ran(";") /\ Returned) => state = "Done"
    /\ rte \in Errors => state = "Done"

\* run_to_end returned CharConversionFailure, and called again it has executed
\* 'o', written "A", executed ';' and returned Ok
C8_Witness ==
    /\ source = FailThenPrint
    /\ calls = 2
    /\ rte = "Ok"
    /\ Ran(";")
    /\ output = <<Ord["A"]>>

\* pos lies inside the rectangle of the source
Inside(cb, pos) == 0 <= pos[1] /\ pos[1] < cb.width /\ 0 <= pos[2] /\ pos[2] < cb.height

\* C9: once a step has advanced the pointer and returned, the pointer lies
\* inside the rectangle of the source, 0 <= x < W and 0 <= y < H, and the cell
\* a step fetches lies inside it.
C9_PointerInside ==
    /\ (Stepped /\ Returned) => Inside(codebox, ptr)
    /\ Stepped => Inside(Before.codebox, Before.ptr)

\* '.' has sent the pointer to row 1 of a source of one line, the pointer has
\* come to rest there on the ';' that 'p' wrote, and a step has fetched it
C9_Witness ==
    /\ Stepped
    /\ source = JumpOutside
    /\ codebox.height = 1
    /\ Before.ptr = <<1, 1>>
    /\ Fetched = Op(Ord[";"])
    /\ state = "Done"

\* the last step found the mode Text(q)
InText == Stepped /\ Before.mode # Normal
\* the value text mode pushes for the fetched cell
TextValue == F(IF Fetched = Noop THEN Ord[" "] ELSE Fetched[1])

\* C10: in mode Text(q) a step whose cell is not q returns Ok, pushes exactly
\* one value onto the current substack (the code point of the cell, 32 for a
\* noop cell), leaves direction, state, codebox, register, output, input and
\* mode as they were, and advances the pointer by exactly one cell; the mode
\* goes back to Normal only on a cell equal to q, and does so on every such
\* cell; a step that leaves Normal mode has executed a quote and the mode
\* records that quote.
C10_TextMode ==
    /\ (InText /\ Fetched # Op(Before.mode[1])) =>
          /\ Returned
          /\ Now.entries = Append(Was.entries, TextValue)
          /\ Now.register = Was.register
          /\ BelowKept
          /\ dir = Before.dir
          /\ state = Before.state
          /\ codebox = Before.codebox
          /\ output = Before.output
          /\ input_stream = Before.input_stream
          /\ mode = Before.mode
          /\ ptr = get_next_pos(Before)
    /\ (InText /\ mode = Normal) => Fetched = Op(Before.mode[1])
    /\ (InText /\ Fetched = Op(Before.mode[1])) => mode = Normal /\ stack = Before.stack
    /\ (Stepped /\ Before.mode = Normal /\ mode # Normal) =>
          /\ Fetched \in {Op(Ord["\""]), Op(Ord["'"])}
          /\ mode = Text(Fetched[1])

\* in mode Text("'") a step has fetched ';', pushed 59 and left the state Running
C10_Witness ==
    /\ InText
    /\ Before.mode = Text(Ord["'"])
    /\ Fetched = Op(Ord[";"])
    /\ Now.entries = Append(Was.entries, F(59))
    /\ state = "Running"
    /\ mode = Before.mode

\* the step before the last one, and the one before that
Stepped2 == Len(older) >= 1
Stepped3 == Len(older) >= 2
\* the step k steps before the last one dispatched instruction c
RanEarlier(k, c) ==
    /\ Len(older) >= k
    /\ older[k].m.mode = Normal
    /\ get_instruction(older[k].m.codebox, older[k].m.ptr) = Op(Ord[c])
    /\ older[k].err = "None"
    /\ ~older[k].hang

\* m after one single-cell advance
Hop(m) == [m EXCEPT !.ptr = get_next_pos(m)]
\* where the pointer rests after the normal advancement of a step, from m
Rest(m) == move_to_next(m).m.ptr
CanRest(m) == ~move_to_next(m).hang

\* C11: '!' makes one extra single-cell advance and then the normal
\* advancement, so that exactly the next cell is skipped, a noop cell too;
\* '?' pops one value, Underflow on an empty substack, and then does as '!'
\* when the value is 0 and advances normally otherwise.
C11_Trampolines ==
    /\ (Ran("!") /\ Returned /\ CanRest(Hop(Before))) => ptr = Rest(Hop(Before))
    /\ Ran("?") =>
          IF Was.entries = <<>> THEN prev[1].err = "Underflow"
          ELSE /\ prev[1].err = "None"
               /\ Now.entries = Front(Was.entries)
               /\ (Returned /\ IsZero(Last(Was.entries)) /\ CanRest(Hop(Before)))
                     => ptr = Rest(Hop(Before))
               /\ (Returned /\ ~IsZero(Last(Was.entries))) => ptr = Rest(Before)

\* '!' with a noop cell right ahead has come to rest one instruction further
\* than the cell after the noop
C11_Witness ==
    /\ Ran("!")
    /\ Returned
    /\ get_instruction(Before.codebox, get_next_pos(Before)) = Noop
    /\ CanRest(Hop(Before))
    /\ ptr # Rest(Hop(Before))
    /\ ptr = Rest([Before EXCEPT !.ptr = Rest(Hop(Before))])

\* the substack right under the current one (the base when there is one substack)
Under(ps) ==
    IF Len(ps.substacks) >= 2 THEN ps.substacks[Len(ps.substacks) - 1] ELSE ps.base
\* the first k substacks above the base, and the base when there is one at
\* all above it, are in ps as they are in qs
SameBelow(ps, qs, k) ==
    /\ \A i \in 1..k : ps.substacks[i] = qs.substacks[i]
    /\ (k >= 0 /\ qs.substacks # <<>> /\ ps.substacks # <<>>) => ps.base = qs.base

\* C12: '[' pops the top value n of the current substack, Underflow when it is
\* empty; n is taken as a count (`as usize`: a negative n is 0, a fraction is
\* cut).  With fewer than n values left it fails with Underflow and creates
\* no substack.  Otherwise the top n values left become, in the same order,
\* a new substack on top with its register unset, and the substack under it
\* keeps the other values and its register; every lower substack is untouched.
C12_Split ==
    Ran("[") =>
        LET depth == Len(Before.stack.substacks) IN
        IF Was.entries = <<>>
        THEN prev[1].err = "Underflow" /\ stack = Before.stack
        ELSE LET n == AsUsize(Last(Was.entries))
                 left == Front(Was.entries)
             IN IF Len(left) < n
                THEN /\ prev[1].err = "Underflow"
                     /\ Len(stack.substacks) = depth
                     /\ SameBelow(stack, Before.stack, depth - 1)
                ELSE /\ prev[1].err = "None"
                     /\ Len(stack.substacks) = depth + 1
                     /\ Now = [entries |-> SubSeq(left, Len(left) - n + 1, Len(left)),
                               register |-> <<>>]
                     /\ Under(stack) = [entries |-> SubSeq(left, 1, Len(left) - n),
                                        register |-> Was.register]
                     /\ SameBelow(stack, Before.stack, depth - 1)

\* '[' has moved two values to a new substack and left two values and a
\* register that is set in the substack under it
C12_Witness ==
    /\ Ran("[")
    /\ Returned
    /\ Len(Was.entries) = 5
    /\ Now.entries = SubSeq(Was.entries, 3, 4)
    /\ Under(stack).entries = SubSeq(Was.entries, 1, 2)
    /\ Was.register # <<>>
    /\ Under(stack).register = Was.register

\* C13: '[' that succeeds, followed at once by ']', leaves the number of
\* substacks as it was and the substack it split holding its values other
\* than the count popped, in their order, with its register as it was.  Every
\* ']' that removes a substack appends its values to the substack below,
\* whose register stays and which loses nothing; the register of the removed
\* substack is in neither, so a register set between '[' and ']' is lost and
\* the register below is what it was before '['.
C13_SplitDrop ==
    /\ (RanEarlier(1, "[") /\ Ran("]")) =>
          LET was == curr(older[1].m.stack) IN
          /\ prev[1].err = "None"
          /\ stack = SetCurr(older[1].m.stack, [was EXCEPT !.entries = Front(was.entries)])
    /\ (Ran("]") /\ Before.stack.substacks # <<>>) =>
          /\ prev[1].err = "None"
          /\ Len(stack.substacks) = Len(Before.stack.substacks) - 1
          /\ Now = [entries |-> Under(Before.stack).entries \o Was.entries,
                    register |-> Under(Before.stack).register]
          /\ SameBelow(stack, Before.stack, Len(stack.substacks) - 1)
    /\ (RanEarlier(2, "[") /\ RanEarlier(1, "&") /\ Ran("]")) =>
          /\ Len(stack.substacks) = Len(older[2].m.stack.substacks)
          /\ Now.register = curr(older[2].m.stack).register

\* '[' has moved two values from above one value and a register that is set,
\* and ']' right after it has put them back
C13_Witness ==
    /\ RanEarlier(1, "[")
    /\ Ran("]")
    /\ Len(Was.entries) = 2
    /\ Len(Now.entries) = 3
    /\ Now.register # <<>>
    /\ Append(Now.entries, F(2)) = curr(older[1].m.stack).entries

\* the substacks of the stack machine, the base first
Substacks(ps) == <<ps.base>> \o ps.substacks

\* C14: the stack machine always holds at least one substack, the current one
\* being the last of them.  ']' with only the base substack ends without an
\* error and leaves the base as the only substack, without values and with
\* its register unset; any other ']' removes exactly one substack.
C14_BaseStays ==
    /\ Len(Substacks(stack)) >= 1
    /\ curr(stack) = Last(Substacks(stack))
    /\ Ran("]") =>
          /\ prev[1].err = "None"
          /\ IF Len(Substacks(Before.stack)) = 1
             THEN Substacks(stack) = <<StackNew>>
             ELSE Len(Substacks(stack)) = Len(Substacks(Before.stack)) - 1

\* ']' has matched a '[', and the next ']' has found only the base substack,
\* which held values and a register
C14_Witness ==
    /\ RanEarlier(2, "[")
    /\ RanEarlier(1, "]")
    /\ Ran("]")
    /\ Len(Substacks(Before.stack)) = 1
    /\ Was.entries # <<>>
    /\ Was.register # <<>>
    /\ stack.base = StackNew

\* the code point 'g' reads where the source text has no character or a
\* space, and no 'p' has written: 0; and the character of the source elsewhere
SourceCell(text, pos) ==
    LET lines == Lines(text) IN
    IF pos[2] < Len(lines) /\ pos[1] < Len(lines[pos[2] + 1])
                           /\ lines[pos[2] + 1][pos[1] + 1] # Ord[" "]
    THEN lines[pos[2] + 1][pos[1] + 1]
    ELSE 0

\* v is a code point, x and y are whole and not negative
CanPut(v, x, y) ==
    /\ IsIntegral(v) /\ v[1] >= 0 /\ IsScalar(v[1])
    /\ IsIntegral(x) /\ x[1] >= 0
    /\ IsIntegral(y) /\ y[1] >= 0

\* C15: 'p' on [.., v, x, y], v a code point and x, y whole and not negative,
\* returns no error and removes the three values, wherever (x, y) lies.  'g'
\* on [.., x, y] that returns replaces x and y by the code point of the last
\* value a 'p' has written to (x, y), and, when none has, by the character
\* the source text has there, 0 for a space and for a position it lacks.
C15_PutGet ==
    /\ (Ran("p") /\ Len(Was.entries) >= 3) =>
          LET e == Was.entries
              n == Len(e)
          IN CanPut(e[n - 2], e[n - 1], e[n]) =>
                /\ prev[1].err = "None"
                /\ Now.entries = SubSeq(e, 1, n - 3)
                /\ <<e[n - 1][1], e[n][1]>> \in DOMAIN puts
                /\ puts[<<e[n - 1][1], e[n][1]>>] = e[n - 2][1]
    /\ (Ran("g") /\ Returned) =>
          LET e == Was.entries
              n == Len(e)
              pos == <<e[n - 1][1], e[n][1]>>
          IN Now.entries = Append(SubSeq(e, 1, n - 2),
                                  F(IF pos \in DOMAIN puts THEN puts[pos]
                                    ELSE SourceCell(source, pos)))

\* 'g' has read, below the rectangle, what the first of two 'p' wrote there
C15_Witness ==
    /\ Ran("g")
    /\ Returned
    /\ Len(Was.entries) = 2
    /\ Last(Was.entries)[1] >= codebox.height
    /\ DOMAIN puts = {<<0, 7>>, <<1, 7>>}
    /\ Now.entries = <<F(Ord["A"])>>

\* m after instruction c has been executed k times on it, the pointer staying
RECURSIVE Applied(_, _, _)
Applied(c, m, k) ==
    IF k = 0 THEN m ELSE Applied(c, execute_instruction(m, Ord[c], "East").m, k - 1)

\* the direction after c has been executed k times, starting with direction d
\* on the interpreter the last step found
Turned(c, d, k) == Applied(c, [Before EXCEPT !.dir = d], k).dir

SlashSwap == [North |-> "East", East |-> "North", South |-> "West", West |-> "South"]
BackslashSwap == [North |-> "West", West |-> "North", South |-> "East", East |-> "South"]

\* what '#', '/' and '\' do is what the last step did
TurnsAsExecuted ==
    \A c \in {"#", "/", "\\"} : Ran(c) => dir = Turned(c, Before.dir, 1)

\* C16 as claimed: '#' executed twice restores every direction; '/' swaps
\* North with East and South with West, '\' North with West and South with
\* East, and each of them restores every direction when executed four times
\* and no direction when executed once, twice or three times.
C16_OrderFour ==
    /\ TurnsAsExecuted
    /\ Ran("#") => \A d \in Directions : Turned("#", d, 2) = d
    /\ Ran("/") => \A d \in Directions :
          /\ Turned("/", d, 1) = SlashSwap[d]
          /\ Turned("/", d, 4) = d
          /\ \A k \in 1..3 : Turned("/", d, k) # d
    /\ Ran("\\") => \A d \in Directions :
          /\ Turned("\\", d, 1) = BackslashSwap[d]
          /\ Turned("\\", d, 4) = d
          /\ \A k \in 1..3 : Turned("\\", d, k) # d

\* C16: '#' executed twice restores every direction; '/' swaps North with
\* East and South with West, '\' North with West and South with East, and
\* each of them changes every direction when executed once and restores it
\* when executed twice.
C16_OrderTwo ==
    /\ TurnsAsExecuted
    /\ Ran("#") => \A d \in Directions : Turned("#", d, 2) = d
    /\ Ran("/") => \A d \in Directions :
          /\ Turned("/", d, 1) = SlashSwap[d]
          /\ Turned("/", d, 1) # d
          /\ Turned("/", d, 2) = d
    /\ Ran("\\") => \A d \in Directions :
          /\ Turned("\\", d, 1) = BackslashSwap[d]
          /\ Turned("\\", d, 1) # d
          /\ Turned("\\", d, 2) = d

\* '/' met twice in a row, and the second has restored the direction the
\* first one found
C16_Witness ==
    /\ RanEarlier(1, "/")
    /\ Ran("/")
    /\ Before.dir # older[1].m.dir
    /\ dir = older[1].m.dir

\* the pointer of m after k single-cell advances
RECURSIVE Advanced(_, _)
Advanced(m, k) == IF k = 0 THEN m.ptr ELSE Advanced(Hop(m), k - 1)

\* the interpreter at position pos with direction d
At(pos, d) == [Self EXCEPT !.ptr = pos, !.dir = d]

\* the neighbour of pos in direction d on a torus of w columns and h rows
Torus(pos, d, w, h) ==
    CASE d = "North" -> <<pos[1], (pos[2] + h - 1) % h>>
      [] d = "East" -> <<(pos[1] + 1) % w, pos[2]>>
      [] d = "South" -> <<pos[1], (pos[2] + 1) % h>>
      [] d = "West" -> <<(pos[1] + w - 1) % w, pos[2]>>

\* the positions of the rectangle of the codebox
Rectangle == (0..(codebox.width - 1)) \X (0..(codebox.height - 1))

\* C17: from every position of the rectangle, as many single-cell advances as
\* the codebox has columns, East or West, and as many as it has rows, South
\* or North, end where they began, and one advance goes to the neighbour on
\* the torus: from 0 down to the dimension less one, from the dimension less
\* one up to 0, the other coordinate staying.  Evaluated for every position
\* when the interpreter is built and for the position of the pointer
\* afterwards; a step in text mode that stays in text mode advances the
\* pointer by exactly one such cell.
C17_Toroidal ==
    /\ \A pos \in (IF Stepped THEN {ptr} \cap Rectangle ELSE Rectangle) :
          /\ \A d \in Directions :
                get_next_pos(At(pos, d)) = Torus(pos, d, codebox.width, codebox.height)
          /\ \A d \in {"East", "West"} : Advanced(At(pos, d), codebox.width) = pos
          /\ \A d \in {"North", "South"} : Advanced(At(pos, d), codebox.height) = pos
    /\ (Stepped /\ Returned /\ Before.mode # Normal /\ mode # Normal
               /\ Before.ptr \in Rectangle) =>
          ptr = Torus(Before.ptr, Before.dir, codebox.width, codebox.height)

\* a step in text mode has taken the pointer from the last column to the first
C17_Witness ==
    /\ Stepped
    /\ Returned
    /\ Before.mode # Normal
    /\ mode # Normal
    /\ codebox.width > 1
    /\ Before.ptr[1] = codebox.width - 1
    /\ Before.dir = "East"
    /\ ptr = <<0, Before.ptr[2]>>

\* the last step returned an error
Failed == Stepped /\ prev[1].err # "None"

\* C18: a step that returns an error returns one of the four RuntimeErrors,
\* and run_to_end returns that error at once: the error run_to_end has
\* returned is the error of the last step taken, and from the failing step
\* until the host calls run_to_end again no step is taken, the output is what
\* the failing step found and the pointer is on the failing instruction.
C18_ErrorEndsRun ==
    /\ Failed =>
          /\ prev[1].err \in Errors
          /\ rte = prev[1].err \/ (rte = "running" /\ calls > 1)
          /\ ptr = Before.ptr
          /\ output = Before.output
    /\ rte \in Errors => (Failed /\ prev[1].err = rte)

\* 'n' has written, the next instruction is none of the language, and
\* run_to_end has returned InvalidInstruction
C18_Witness ==
    /\ rte = "InvalidInstruction"
    /\ calls = 1
    /\ RanEarlier(1, "n")
    /\ Ran("A")
    /\ output # <<>>
    /\ output = Before.output
    /\ ptr = Before.ptr

\* the number of characters of the longest line of a text, 0 without lines
LongestLine(text) == Max({Len(Lines(text)[i]) : i \in 1..Len(Lines(text))} \cup {0})

\* C19: the width of the codebox is the number of characters of the longest
\* line of the source and its height the number of lines of the source, from
\* construction on and after every instruction, 'p' to a position outside the
\* rectangle included; and a single-cell advance of the pointer wraps at
\* these two numbers whatever 'p' has written.
C19_FixedSize ==
    /\ codebox.width = LongestLine(source)
    /\ codebox.height = Len(Lines(source))
    /\ Stepped =>
          /\ codebox.width = Before.codebox.width
          /\ codebox.height = Before.codebox.height
    /\ (ptr[1] < LongestLine(source) /\ ptr[2] < Len(Lines(source))) =>
          \A d \in Directions :
             get_next_pos(At(ptr, d)) = Torus(ptr, d, LongestLine(source), Len(Lines(source)))

\* the width is one more than the characters of the only line, and text mode
\* has met a cell past the end of the line before it came back to the quote
C19_Witness ==
    /\ source = TwoByteChar
    /\ codebox.width = 3
    /\ LongestLine(source) = 2
    /\ InText
    /\ Fetched = Op(Ord["'"])
    /\ mode = Normal
    /\ Now.entries = <<F(233), F(Ord[" "])>>

BinaryInstructions == {"+", "-", "*", ",", "%", "=", ")", "("}

\* what binary instruction c pushes for left operand y and right operand x
Computed(c, y, x) ==
    CASE c = "+" -> FAdd(y, x)
      [] c = "-" -> FSub(y, x)
      [] c = "*" -> FMul(y, x)
      [] c = "," -> FDiv(y, x)
      [] c = "%" -> FRem(y, x)
      [] c = "=" -> IF y[1] * Den(x) = x[1] * Den(y) THEN F(1) ELSE F(0)
      [] c = ")" -> IF y[1] * Den(x) > x[1] * Den(y) THEN F(1) ELSE F(0)
      [] c = "(" -> IF y[1] * Den(x) < x[1] * Den(y) THEN F(1) ELSE F(0)

\* r is what c gives for the whole numbers y and x, in the arithmetic of the
\* integers: the remainder has the sign of y
WholeResult(c, y, x, r) ==
    CASE c = "+" -> r[1] = y + x /\ Den(r) = 1
      [] c = "-" -> r[1] = y - x /\ Den(r) = 1
      [] c = "*" -> r[1] = y * x /\ Den(r) = 1
      [] c = "," -> r[1] * x = y * Den(r)
      [] c = "%" -> /\ Den(r) = 1
                    /\ Abs(r[1]) = Abs(y) - (Abs(y) \div Abs(x)) * Abs(x)
                    /\ r[1] = 0 \/ (r[1] < 0) = (y < 0)
      [] c = "=" -> r = F(IF y = x THEN 1 ELSE 0)
      [] c = ")" -> r = F(IF y > x THEN 1 ELSE 0)
      [] c = "(" -> r = F(IF y < x THEN 1 ELSE 0)

\* C20: each of '+', '-', '*', ',', '%', '=', ')' and '(' on a substack
\* [.., y, x] of two values or more returns no error and replaces y and x by
\* one value, computed with y on the left and x on the right, so that the
\* substack is one value shorter and the values below and the register are
\* as they were; on a substack of fewer than two values it returns Underflow.
\* ('=' compares within f64::EPSILON, which two different values of the model
\* never are.)
C20_BinaryOps ==
    \A c \in BinaryInstructions :
       Ran(c) =>
          LET e == Was.entries
              n == Len(e)
          IN IF n < 2 THEN prev[1].err = "Underflow"
             ELSE /\ prev[1].err = "None"
                  /\ Len(Now.entries) = n - 1
                  /\ Now.entries = Append(SubSeq(e, 1, n - 2), Computed(c, e[n - 1], e[n]))
                  /\ Now.register = Was.register
                  /\ BelowKept
                  /\ (IsIntegral(e[n - 1]) /\ IsIntegral(e[n])) =>
                        WholeResult(c, e[n - 1][1], e[n][1], Last(Now.entries))

\* '-' has found a value below y and x, with y > x > 0, and has left y - x
\* on top of it
C20_Witness ==
    /\ Ran("-")
    /\ Returned
    /\ Len(Was.entries) >= 3
    /\ IsIntegral(FromTop(Was.entries, 1))
    /\ IsIntegral(FromTop(Was.entries, 2))
    /\ FromTop(Was.entries, 1)[1] > 0
    /\ FromTop(Was.entries, 2)[1] > FromTop(Was.entries, 1)[1]
    /\ Len(Now.entries) = Len(Was.entries) - 1
    /\ Last(Now.entries) = F(FromTop(Was.entries, 2)[1] - FromTop(Was.entries, 1)[1])
    /\ Front(Now.entries) = SubSeq(Was.entries, 1, Len(Was.entries) - 2)

\* the stack a test of stack.rs builds from whole numbers, the last on top
Holding(ns) == [entries |-> [i \in 1..Len(ns) |-> F(ns[i])], register |-> <<>>]

\* the n swap takes for '$' and for '@'
SwapDepth(c) == IF c = "$" THEN 2 ELSE 3

\* C21: swap(n), n = 2 for '$' and n = 3 for '@', on n values or more returns
\* Ok, leaves the values below the top n where they were, puts the top value
\* right above them and each of the other n - 1 one place nearer the top; as
\* the tests swap2 and swap3 have it, [1, 2, 3, 4] becomes [1, 2, 4, 3] under
\* swap(2) and [1, 4, 2, 3] under swap(3).
C21_SwapTests ==
    /\ swap(Holding(<<1, 2, 3, 4>>), 2) = [st |-> Holding(<<1, 2, 4, 3>>), err |-> "None"]
    /\ swap(Holding(<<1, 2, 3, 4>>), 3) = [st |-> Holding(<<1, 4, 2, 3>>), err |-> "None"]
    /\ \A c \in {"$", "@"} :
          (Ran(c) /\ Len(Was.entries) >= SwapDepth(c)) =>
             LET e == Was.entries
                 len == Len(e)
                 n == SwapDepth(c)
             IN /\ prev[1].err = "None"
                /\ Len(Now.entries) = len
                /\ \A i \in 1..(len - n) : Now.entries[i] = e[i]
                /\ Now.entries[len - n + 1] = e[len]
                /\ \A i \in (len - n + 1)..(len - 1) : Now.entries[i + 1] = e[i]

\* '@' has found [1, 2, 3, 4] and left [1, 4, 2, 3]
C21_Witness ==
    /\ Ran("@")
    /\ Returned
    /\ Was = Holding(<<1, 2, 3, 4>>)
    /\ Now = Holding(<<1, 4, 2, 3>>)

\* C22: shift_right ('}') makes [1, 2, 3, 4] into [4, 1, 2, 3] and shift_left
\* ('{') makes it into [2, 3, 4, 1], as the tests have it; on every substack
\* of every state each of the two undoes the other, and both leave a substack
\* of no value or one value as it is; '{' executed right after '}', and '}'
\* right after '{', gives back the substack the first of them found.
C22_ShiftTests ==
    /\ shift_right(Holding(<<1, 2, 3, 4>>)) = Holding(<<4, 1, 2, 3>>)
    /\ shift_left(Holding(<<1, 2, 3, 4>>)) = Holding(<<2, 3, 4, 1>>)
    /\ \A i \in 1..Len(Substacks(stack)) :
          LET s == Substacks(stack)[i] IN
          /\ shift_left(shift_right(s)) = s
          /\ shift_right(shift_left(s)) = s
          /\ Len(s.entries) <= 1 => (shift_right(s) = s /\ shift_left(s) = s)
    /\ Ran("}") => (Returned /\ Now = shift_right(Was))
    /\ Ran("{") => (Returned /\ Now = shift_left(Was))
    /\ (RanEarlier(1, "}") /\ Ran("{")) => Now = curr(older[1].m.stack)
    /\ (RanEarlier(1, "{") /\ Ran("}")) => Now = curr(older[1].m.stack)

\* '{' has made [1, 2, 3, 4] into [2, 3, 4, 1], and '}' has undone it
C22_Witness ==
    /\ RanEarlier(1, "{")
    /\ Ran("}")
    /\ curr(older[1].m.stack) = Holding(<<1, 2, 3, 4>>)
    /\ Was = Holding(<<2, 3, 4, 1>>)
    /\ Now = Holding(<<1, 2, 3, 4>>)

\* C23: swap(n) on fewer than n values returns Underflow and changes nothing:
\* '$' on no value or one value and '@' on two values or fewer leave the
\* values, the register and the substacks below as the step found them; so
\* it is in the cases of the tests swap2 and swap3.
C23_SwapUnderflow ==
    /\ \A ns \in {<<>>, <<1>>} :
          swap(Holding(ns), 2) = [st |-> Holding(ns), err |-> "Underflow"]
    /\ \A ns \in {<<>>, <<1>>, <<1, 2>>} :
          swap(Holding(ns), 3) = [st |-> Holding(ns), err |-> "Underflow"]
    /\ \A c \in {"$", "@"} :
          (Ran(c) /\ Len(Was.entries) < SwapDepth(c)) =>
             /\ prev[1].err = "Underflow"
             /\ Now.entries = Was.entries
             /\ stack = Before.stack

\* '@' has found two different values and has returned Underflow
C23_Witness ==
    /\ Ran("@")
    /\ Len(Was.entries) = 2
    /\ Was.entries[1] # Was.entries[2]
    /\ prev[1].err = "Underflow"
    /\ rte = "Underflow"
    /\ Now.entries = Was.entries

\* C24: 'r' returns Ok and leaves the values of the current substack in the
\* opposite order, the i-th from the bottom becoming the i-th from the top,
\* with the register and the substacks below as they were ([1, 2, 3, 4]
\* becomes [4, 3, 2, 1]); reversing twice gives back every substack of every
\* state, and 'r' executed right after 'r' gives back the substack the first
\* one found.
C24_ReverseTwice ==
    /\ reverse(Holding(<<1, 2, 3, 4>>)) = Holding(<<4, 3, 2, 1>>)
    /\ \A i \in 1..Len(Substacks(stack)) :
          reverse(reverse(Substacks(stack)[i])) = Substacks(stack)[i]
    /\ Ran("r") =>
          /\ Returned
          /\ Len(Now.entries) = Len(Was.entries)
          /\ \A i \in 1..Len(Was.entries) : Now.entries[i] = FromTop(Was.entries, i)
          /\ Now.register = Was.register
          /\ BelowKept
    /\ (RanEarlier(1, "r") /\ Ran("r")) => stack = older[1].m.stack

\* 'r' has made [1, 2, 3, 4] into [4, 3, 2, 1] and the next 'r' has undone
\* it, under a register that holds 5
C24_Witness ==
    /\ RanEarlier(1, "r")
    /\ Ran("r")
    /\ Was = [entries |-> Holding(<<4, 3, 2, 1>>).entries, register |-> <<F(5)>>]
    /\ Now = [entries |-> Holding(<<1, 2, 3, 4>>).entries, register |-> <<F(5)>>]
    /\ stack = older[1].m.stack

\* C25: after a step that has returned Ok and leaves the mode Normal the
\* pointer is on a cell that is not Noop; after a step that has returned Ok
\* and leaves the mode Text the pointer is one single-cell advance from where
\* the step found it (its neighbour on the torus when that was inside the
\* rectangle), whatever the cell it reaches holds.
C25_RestsOnCell ==
    /\ (Stepped /\ Returned /\ mode = Normal) => get_instruction(codebox, ptr) # Noop
    /\ (Stepped /\ Returned /\ mode # Normal) =>
          /\ dir = Before.dir
          /\ ptr = get_next_pos(Before)
          /\ Before.ptr \in Rectangle =>
                ptr = Torus(Before.ptr, dir, codebox.width, codebox.height)

\* the interpreter the last step found, turned the way the step left it
Turning == [Before EXCEPT !.dir = dir]

\* a step in Normal mode has passed two Noop cells and rests on the cell
\* after them
C25_Witness ==
    /\ Stepped
    /\ Returned
    /\ Before.mode = Normal
    /\ mode = Normal
    /\ Fetched # Noop
    /\ Fetched # Op(Ord["."])
    /\ get_instruction(codebox, get_next_pos(Turning)) = Noop
    /\ get_instruction(codebox, get_next_pos(Hop(Turning))) = Noop
    /\ ptr = get_next_pos(Hop(Hop(Turning)))
    /\ get_instruction(codebox, ptr) # Noop

\* where the advance of the last step began: the position '.' loaded, or the
\* cell of the instruction
AdvancedFrom ==
    IF Ran(".") /\ Len(Was.entries) >= 2
    THEN <<FromTop(Was.entries, 2)[1], FromTop(Was.entries, 1)[1]>>
    ELSE Before.ptr

\* C26: no step fails to return, and the pointer a step in Normal mode
\* leaves is reached from where its advance began by max(W, H) single-cell
\* advances at most.
C26_StepsReturn ==
    /\ rte # "Hang"
    /\ Stepped => ~prev[1].hang
    /\ (Stepped /\ Returned /\ mode = Normal) =>
          \E k \in 1..Max({codebox.width, codebox.height, 1}) :
             ptr = Advanced([Turning EXCEPT !.ptr = AdvancedFrom], k)

\* '.' has taken the pointer to a row without a character cell, and the step
\* has not returned
C26_Witness ==
    /\ source = JumpToEmptyRow
    /\ Ran(".")
    /\ prev[1].hang
    /\ rte = "Hang"
    /\ state # "Done"

\* the cell holds a space: Noop, or the character SPACE
HoldsSpace(cell) == cell = Noop \/ cell = Op(Ord[" "])

\* C27: no cell of the codebox is a character cell holding SPACE, after
\* construction and after every 'p'; a step in Normal mode that fetches a
\* space does not return InvalidInstruction; and 'g' of a cell that holds a
\* space pushes 0.
C27_SpaceIsNoop ==
    /\ \A pos \in DOMAIN codebox.code : codebox.code[pos] # Op(Ord[" "])
    /\ (Stepped /\ Before.mode = Normal /\ HoldsSpace(Fetched)) =>
          prev[1].err # "InvalidInstruction"
    /\ (Ran("g") /\ Returned) =>
          (HoldsSpace(get_instruction(Before.codebox,
                                      <<FromTop(Was.entries, 2)[1], FromTop(Was.entries, 1)[1]>>))
              => Last(Now.entries) = F(0))

\* 'p' has written a space over the space before ';', 'g' of it has pushed
\* 32, and the step that fetched it has returned InvalidInstruction
C27_Witness ==
    /\ source = SpaceWritten
    /\ puts = (<<10, 0>> :> Ord[" "])
    /\ codebox.code[<<10, 0>>] = Op(Ord[" "])
    /\ Stepped
    /\ Before.mode = Normal
    /\ Fetched = Op(Ord[" "])
    /\ output = Str(<< "3", "2" >>)
    /\ rte = "InvalidInstruction"

====
